---- MODULE Spec2Model ----
(***************************************************************************)
(* ReceiptManager of runtime/near-vm-logic/src/receipt_manager.rs: the     *)
(* pending-receipt store (ActionReceipts), the gas-weight registry, the    *)
(* action-append operations, distribute_unused_gas and take_receipts.      *)
(*                                                                         *)
(* Receipt indices and action indices are 0-based as in the source; TLA+   *)
(* sequences are 1-based, so element i of a Vec is seq[i + 1].             *)
(***************************************************************************)
EXTENDS Integers, Sequences, FiniteSets, TLC

(* ------------------------------ bounds --------------------------------- *)

\* Width of Gas / GasWeight (u64 in the source), scaled down.
GasBits == 2
\* Successful create_receipt calls over the lifetime of one manager.
MaxCreates == 2
\* Successful append_action calls over the lifetime of one manager.
MaxActions == 2
\* Receipts and actions held in the store at any one time.
MaxPending == 3
\* Length of the receipt_indices argument of create_receipt.
MaxDeps == 2
\* Data identifiers the external generator hands out.
MaxDataIds == 2
\* The same two bounds where only the dependency graph is explored.
MaxLinkedCreates == 3
MaxLinkedDataIds == 3
\* Entries of the registry where only the arithmetic of the distribution
\* is explored.
MaxWeights == 3

(* --------------------------- integer widths ---------------------------- *)

RECURSIVE Pow2(_)
Pow2(n) == IF n = 0 THEN 1 ELSE 2 * Pow2(n - 1)

\* One more than the largest u64 / u128 value (u128 is twice as wide as u64).
U64 == Pow2(GasBits)
U128 == Pow2(2 * GasBits)
U64Max == U64 - 1

(* ------------------------------ inputs --------------------------------- *)

Accounts == {"b.test", "c.test"}

\* Method-name bytes: "m", and a lone 0xFF, which is not UTF-8.
MethodNameInputs == {<<109>>, <<255>>}
\* Allow-lists of add_key_with_function_call: one valid name, and a valid
\* name followed by an invalid one.
MethodNamesInputs == {<<(<<109>>)>>, <<(<<109>>), (<<255>>)>>}

\* Public-key bytes: key-type tag 0 with a full key body, and an unknown tag.
KeyBody == [i \in 1..32 |-> 7]
PublicKeyInputs == {<<0>> \o KeyBody, <<9>> \o KeyBody}

PrepaidGasInputs == {1}
GasWeightInputs == {0, 1, 2}
UnusedGasInputs == {0, 2, U64Max}

(* ------------------------------- state --------------------------------- *)

VARIABLES
    action_receipts,  \* ReceiptManager.action_receipts.0 : Vec<(AccountId, ReceiptMetadata)>
    gas_weights,      \* ReceiptManager.gas_weights : Vec<(FunctionCallActionIndex, GasWeight)>
    data_id_counter,  \* state of the External data-id generator
    op,               \* the operation called last
    args,             \* its arguments
    ret,              \* its outcome
    prev_receipts,    \* action_receipts when the last operation was called
    prev_weights,     \* gas_weights when the last operation was called
    prev_counter,     \* data_id_counter when the last operation was called
    appended,         \* per pending receipt, the actions as they were passed to append_action
    prev_appended,    \* appended when the last operation was called
    created,          \* per pending receipt, the receiver and input_data_ids it was created with
    weighted,         \* the (receipt index, action index) of the pending actions appended with a weight above 0
    returned,         \* the indices returned by successful create_receipt calls, in order
    appends           \* the number of successful append_action calls so far

vars == <<action_receipts, gas_weights, data_id_counter, op, args, ret,
          prev_receipts, prev_weights, prev_counter, appended, prev_appended,
          created, weighted, returned, appends>>

(* ------------------------------ outcomes ------------------------------- *)

NoReceiver == [some |-> FALSE, id |-> ""]

Outcome(kind, err, index, dist, receipts, receiver) ==
    [kind |-> kind, err |-> err, index |-> index, dist |-> dist,
     receipts |-> receipts, receiver |-> receiver]

Ok == Outcome("Ok", "", -1, "", <<>>, NoReceiver)
OkIndex(i) == Outcome("Ok", "", i, "", <<>>, NoReceiver)
Err(e) == Outcome("Err", e, -1, "", <<>>, NoReceiver)
ErrIndex(e, i) == Outcome("Err", e, i, "", <<>>, NoReceiver)
Panic(msg) == Outcome("Panic", msg, -1, "", <<>>, NoReceiver)

(* ------------------------------ helpers -------------------------------- *)

\* Vec::get: is index i (0-based) in range of seq.
InRange(seq, i) == i >= 0 /\ i < Len(seq)

RECURSIVE SumActions(_, _)
SumActions(receipts, k) ==
    IF k > Len(receipts) THEN 0
    ELSE Len(receipts[k].actions) + SumActions(receipts, k + 1)

\* What the store holds: its receipts and all their actions.
PendingSize == Len(action_receipts) + SumActions(action_receipts, 1)

(* ------------------------- payload conversions ------------------------- *)

IsContinuation(b) == b >= 128 /\ b <= 191

\* String::from_utf8 accepts exactly the well-formed UTF-8 byte sequences.
RECURSIVE Utf8Valid(_, _)
Utf8Valid(bytes, k) ==
    IF k > Len(bytes) THEN TRUE
    ELSE LET b == bytes[k]
             n == IF b < 128 THEN 1
                  ELSE IF b >= 194 /\ b <= 223 THEN 2
                  ELSE IF b >= 224 /\ b <= 239 THEN 3
                  ELSE IF b >= 240 /\ b <= 244 THEN 4
                  ELSE 0
         IN /\ n > 0
            /\ k + n - 1 <= Len(bytes)
            /\ \A j \in (k + 1)..(k + n - 1) : IsContinuation(bytes[j])
            /\ Utf8Valid(bytes, k + n)

\* String::from_utf8(method_name).map_err(|_| HostError::InvalidMethodName):
\* the String holds the bytes it was given; ill-formed bytes are an error.
StringFromUtf8(bytes) ==
    IF Utf8Valid(bytes, 1)
    THEN [ok |-> TRUE, value |-> [utf8 |-> bytes]]
    ELSE [ok |-> FALSE, value |-> [utf8 |-> <<>>]]

\* method_names.into_iter().map(from_utf8).collect::<Result<Vec<_>, _>>():
\* the first ill-formed name makes the whole collection an error.
RECURSIVE CollectMethodNames(_, _, _)
CollectMethodNames(names, k, acc) ==
    IF k > Len(names) THEN [ok |-> TRUE, value |-> acc]
    ELSE LET s == StringFromUtf8(names[k])
         IN IF s.ok THEN CollectMethodNames(names, k + 1, Append(acc, s.value))
            ELSE [ok |-> FALSE, value |-> <<>>]

\* Length of the key body that follows the key-type tag.
KeyBodyLen(tag) == IF tag = 0 THEN 32 ELSE IF tag = 1 THEN 64 ELSE -1

\* PublicKey::try_from_slice(&public_key).map_err(|_| HostError::InvalidPublicKey):
\* a recognised key-type tag followed by exactly the body of that key type.
PublicKeyTryFromSlice(bytes) ==
    IF /\ Len(bytes) >= 1
       /\ KeyBodyLen(bytes[1]) >= 0
       /\ Len(bytes) = 1 + KeyBodyLen(bytes[1])
    THEN [ok |-> TRUE,
          value |-> [key_type |-> bytes[1], data |-> SubSeq(bytes, 2, Len(bytes))]]
    ELSE [ok |-> FALSE, value |-> [key_type |-> -1, data |-> <<>>]]

(* ------------------------------- Init ---------------------------------- *)

\* ReceiptManager::default(): no pending receipt, no recorded gas weight.
Init ==
    /\ action_receipts = <<>>
    /\ gas_weights = <<>>
    /\ data_id_counter = 0
    /\ op = "new"
    /\ args = [none |-> TRUE]
    /\ ret = Ok
    /\ prev_receipts = <<>>
    /\ prev_weights = <<>>
    /\ prev_counter = 0
    /\ appended = <<>>
    /\ prev_appended = <<>>
    /\ created = <<>>
    /\ weighted = {}
    /\ returned = <<>>
    /\ appends = 0

\* A panic unwinds out of the manager: no operation follows it. An operation
\* that left the manager exactly as it was (a lookup, a call that failed
\* before changing anything) is not followed further either: whatever can be
\* called after it can be called from the state it was called in, and is
\* explored from there.
Running ==
    /\ ret.kind # "Panic"
    /\ \/ op = "new"
       \/ <<action_receipts, gas_weights, data_id_counter>>
              # <<prev_receipts, prev_weights, prev_counter>>

(* --------------------------- create_receipt ---------------------------- *)

\* ext.generate_data_id(): a value not handed out before.
GenerateDataId(counter) == counter + 1

\* CryptoHash::default()
DefaultCryptoHash == 0

\* Faulty variant: the registration is made on the first receipt of the store.
PushDataReceiverOnFirst(receipts, i, data_id, receiver_id) ==
    [receipts EXCEPT ![1].output_data_receivers =
        Append(@, [data_id |-> data_id, receiver_id |-> receiver_id])]

\* Faulty variant: the registration is made twice.
PushDataReceiverTwice(receipts, i, data_id, receiver_id) ==
    [receipts EXCEPT ![i + 1].output_data_receivers =
        @ \o <<[data_id |-> data_id, receiver_id |-> receiver_id],
               [data_id |-> data_id, receiver_id |-> receiver_id]>>]

\* Faulty variant: the registration names the dependency's own receiver.
PushDataReceiverOwn(receipts, i, data_id, receiver_id) ==
    [receipts EXCEPT ![i + 1].output_data_receivers =
        Append(@, [data_id |-> data_id, receiver_id |-> receipts[i + 1].receiver_id])]

\* output_data_receivers.push(DataReceiver { data_id, receiver_id }) on receipt i.
PushDataReceiver(receipts, i, data_id, receiver_id) ==
    [receipts EXCEPT ![i + 1].output_data_receivers =
        Append(@, [data_id |-> data_id, receiver_id |-> receiver_id])]

\* The for loop of create_receipt from its k-th index on: a data id is
\* generated first, then the receipt is looked up; the first index that is
\* out of range returns the error from inside the loop.
RECURSIVE CreateReceiptLoop(_, _, _, _, _, _)
CreateReceiptLoop(receipts, receipt_indices, k, counter, input_data_ids, receiver_id) ==
    IF k > Len(receipt_indices)
    THEN [receipts |-> receipts, counter |-> counter,
          input_data_ids |-> input_data_ids, failed |-> FALSE, index |-> -1]
    ELSE LET receipt_index == receipt_indices[k]
             data_id == GenerateDataId(counter)
         IN IF ~InRange(receipts, receipt_index)
            THEN [receipts |-> receipts, counter |-> data_id,
                  input_data_ids |-> input_data_ids, failed |-> TRUE,
                  index |-> receipt_index]
            ELSE CreateReceiptLoop(
                     PushDataReceiver(receipts, receipt_index, data_id, receiver_id),
                     receipt_indices, k + 1, data_id,
                     Append(input_data_ids, data_id), receiver_id)

NewReceipt(receiver_id, input_data_ids) ==
    [receiver_id |-> receiver_id,
     output_data_receivers |-> <<>>,
     input_data_ids |-> input_data_ids,
     actions |-> <<>>]

RECURSIVE SeqsUpTo(_, _)
SeqsUpTo(S, n) ==
    IF n = 0 THEN {<<>>}
    ELSE LET shorter == SeqsUpTo(S, n - 1)
         IN shorter \cup {Append(s, x) : s \in shorter, x \in S}

\* Dependency lists over the indices in range and the first one out of range.
ReceiptIndicesInputs == SeqsUpTo(0..Len(action_receipts), MaxDeps)

\* Faulty variant: indices are counted from one.
NewReceiptIndexFromOne(receipts) == Len(receipts) + 1

\* let new_receipt_index = self.action_receipts.0.len() as u64
NewReceiptIndex(receipts) == Len(receipts)

\* One create_receipt call on the manager, within the given lifetime bounds.
CreateReceiptStep(max_creates, max_data_ids) ==
    /\ Running
    /\ \E receipt_indices \in ReceiptIndicesInputs, receiver_id \in Accounts :
         LET r == CreateReceiptLoop(action_receipts, receipt_indices, 1,
                                    data_id_counter, <<>>, receiver_id)
         IN /\ r.counter <= max_data_ids
            /\ ~r.failed => Len(returned) < max_creates /\ PendingSize < MaxPending
            /\ op' = "create_receipt"
            /\ args' = [receipt_indices |-> receipt_indices, receiver_id |-> receiver_id]
            /\ prev_receipts' = action_receipts
            /\ prev_weights' = gas_weights
            /\ prev_counter' = data_id_counter
            /\ prev_appended' = appended
            /\ data_id_counter' = r.counter
            /\ UNCHANGED <<gas_weights, weighted, appends>>
            /\ IF r.failed
               THEN /\ action_receipts' = r.receipts
                    /\ ret' = ErrIndex("InvalidReceiptIndex", r.index)
                    /\ UNCHANGED <<appended, created, returned>>
               ELSE /\ action_receipts' =
                          Append(r.receipts, NewReceipt(receiver_id, r.input_data_ids))
                    /\ ret' = OkIndex(NewReceiptIndex(r.receipts))
                    /\ appended' = Append(appended, <<>>)
                    /\ created' = Append(created, [receiver_id |-> receiver_id,
                                                   input_data_ids |-> r.input_data_ids])
                    /\ returned' = Append(returned, NewReceiptIndex(r.receipts))

create_receipt == CreateReceiptStep(MaxCreates, MaxDataIds)

\* create_receipt where the manager lives long enough to link three receipts.
create_receipt_linked == CreateReceiptStep(MaxLinkedCreates, MaxLinkedDataIds)

(* ------------------------- get_receipt_receiver ------------------------ *)

\* Faulty variant: the index is taken to count from one.
GetReceiptReceiverFromOne(receipts, receipt_index) ==
    IF receipt_index >= 1 /\ receipt_index <= Len(receipts)
    THEN [some |-> TRUE, id |-> receipts[receipt_index].receiver_id]
    ELSE NoReceiver

\* self.action_receipts.0.get(receipt_index as usize).map(|(id, _)| id)
GetReceiptReceiver(receipts, receipt_index) ==
    IF InRange(receipts, receipt_index)
    THEN [some |-> TRUE, id |-> receipts[receipt_index + 1].receiver_id]
    ELSE NoReceiver

get_receipt_receiver ==
    /\ Running
    /\ \E receipt_index \in 0..(Len(action_receipts) + 1) :
         /\ op' = "get_receipt_receiver"
         /\ args' = [receipt_index |-> receipt_index]
         /\ ret' = Outcome("Ok", "", -1, "", <<>>,
                           GetReceiptReceiver(action_receipts, receipt_index))
         /\ prev_receipts' = action_receipts
         /\ prev_weights' = gas_weights
         /\ prev_counter' = data_id_counter
         /\ prev_appended' = appended
         /\ UNCHANGED <<action_receipts, gas_weights, data_id_counter, appended, created,
                      weighted, returned, appends>>

(* ---------------------------- take_receipts ---------------------------- *)

\* The Receipt built from one drained (receiver_id, ReceiptMetadata) entry.
ToReceipt(entry, predecessor_id, signer_id, signer_public_key, gas_price) ==
    [predecessor_id |-> predecessor_id,
     receiver_id |-> entry.receiver_id,
     receipt_id |-> DefaultCryptoHash,
     signer_id |-> signer_id,
     signer_public_key |-> signer_public_key,
     gas_price |-> gas_price,
     output_data_receivers |-> entry.output_data_receivers,
     input_data_ids |-> entry.input_data_ids,
     actions |-> entry.actions]

\* Faulty variant: the drained entries are collected in reverse order.
TakeReceiptsReversed(receipts, predecessor_id, signer_id, signer_public_key, gas_price) ==
    [i \in 1..Len(receipts) |->
        ToReceipt(receipts[Len(receipts) + 1 - i], predecessor_id, signer_id,
                  signer_public_key, gas_price)]

\* receipts.drain(..).map(..).collect(): one Receipt per entry, in order.
TakeReceipts(receipts, predecessor_id, signer_id, signer_public_key, gas_price) ==
    [i \in 1..Len(receipts) |->
        ToReceipt(receipts[i], predecessor_id, signer_id, signer_public_key, gas_price)]

\* Faulty variant: the entries are read but stay in the store.
DrainedNothing(receipts) == receipts

\* What drain(..) leaves behind in the Vec.
Drained(receipts) == <<>>

take_receipts ==
    /\ Running
    /\ \E predecessor_id \in {"a.test"}, signer_id \in {"s.test"},
          signer_public_key \in {PublicKeyTryFromSlice(<<0>> \o KeyBody).value},
          gas_price \in {100} :
         /\ op' = "take_receipts"
         /\ args' = [predecessor_id |-> predecessor_id, signer_id |-> signer_id,
                     signer_public_key |-> signer_public_key, gas_price |-> gas_price]
         /\ ret' = Outcome("Ok", "", -1, "",
                           TakeReceipts(action_receipts, predecessor_id, signer_id,
                                        signer_public_key, gas_price),
                           NoReceiver)
         /\ prev_receipts' = action_receipts
         /\ prev_weights' = gas_weights
         /\ prev_counter' = data_id_counter
         /\ prev_appended' = appended
         /\ action_receipts' = Drained(action_receipts)
         /\ appended' = <<>>
         /\ created' = <<>>
         /\ weighted' = {}
         /\ UNCHANGED <<gas_weights, data_id_counter, returned, appends>>

(* ---------------------------- append_action ---------------------------- *)

\* Faulty variant: the action takes the place of the actions already there.
AppendActionReplacing(receipts, receipt_index, action) ==
    [receipts EXCEPT ![receipt_index + 1].actions = <<action>>]

\* Faulty variant: the action is put in front of the actions already there.
AppendActionInFront(receipts, receipt_index, action) ==
    [receipts EXCEPT ![receipt_index + 1].actions = <<action>> \o @]

\* actions.push(action) on receipt receipt_index, which is in range.
AppendAction(receipts, receipt_index, action) ==
    [receipts EXCEPT ![receipt_index + 1].actions = Append(@, action)]

\* Faulty variant: the length after the push is returned as the index.
AppendedIndexLen(receipts, receipt_index) ==
    Len(receipts[receipt_index + 1].actions)

\* The index append_action returns: actions.len() - 1 after the push.
AppendedIndex(receipts, receipt_index) ==
    Len(receipts[receipt_index + 1].actions) - 1

\* Faulty variant: the weight is recorded whatever its value.
PushGasWeightAlways(weights, receipt_index, action_index, gas_weight) ==
    Append(weights, [receipt_index |-> receipt_index,
                     action_index |-> action_index,
                     weight |-> gas_weight])

\* gas_weights.push((FunctionCallActionIndex { receipt_index, action_index }, gas_weight))
\* when gas_weight.0 > 0.
PushGasWeight(weights, receipt_index, action_index, gas_weight) ==
    IF gas_weight > 0
    THEN Append(weights, [receipt_index |-> receipt_index,
                          action_index |-> action_index,
                          weight |-> gas_weight])
    ELSE weights

\* Faulty variant: the action is pushed before its payload is converted, so a call
\* that fails on its payload leaves the action behind.
AppendCallPushFirst(receipts, weights, receipt_index, error, action, gas_weight) ==
    IF ~InRange(receipts, receipt_index)
    THEN [receipts |-> receipts, weights |-> weights,
          ret |-> IF error # "" THEN Err(error)
                  ELSE Panic("receipt index should be present")]
    ELSE LET pushed == AppendAction(receipts, receipt_index, action)
             action_index == AppendedIndex(pushed, receipt_index)
         IN [receipts |-> pushed,
             weights |-> PushGasWeight(weights, receipt_index, action_index, gas_weight),
             ret |-> IF error # "" THEN Err(error) ELSE OkIndex(action_index)]

\* Faulty variant: the receipt index is looked up before the payload is converted.
AppendCallIndexFirst(receipts, weights, receipt_index, error, action, gas_weight) ==
    IF ~InRange(receipts, receipt_index)
    THEN [receipts |-> receipts, weights |-> weights,
          ret |-> Panic("receipt index should be present")]
    ELSE IF error # ""
    THEN [receipts |-> receipts, weights |-> weights, ret |-> Err(error)]
    ELSE LET pushed == AppendAction(receipts, receipt_index, action)
             action_index == AppendedIndex(pushed, receipt_index)
         IN [receipts |-> pushed,
             weights |-> PushGasWeight(weights, receipt_index, action_index, gas_weight),
             ret |-> OkIndex(action_index)]

\* One append_action_* call on the manager. The action value is built first,
\* and a payload that does not convert returns its error before append_action
\* is called; append_action panics on a receipt index that is out of range;
\* otherwise the action is pushed and, for a weighted call, its weight noted.
AppendCall(receipts, weights, receipt_index, error, action, gas_weight) ==
    IF error # ""
    THEN [receipts |-> receipts, weights |-> weights, ret |-> Err(error)]
    ELSE IF ~InRange(receipts, receipt_index)
    THEN [receipts |-> receipts, weights |-> weights,
          ret |-> Panic("receipt index should be present")]
    ELSE LET pushed == AppendAction(receipts, receipt_index, action)
             action_index == AppendedIndex(pushed, receipt_index)
         IN [receipts |-> pushed,
             weights |-> PushGasWeight(weights, receipt_index, action_index, gas_weight),
             ret |-> OkIndex(action_index)]

AppendStep(name, call_args, receipt_index, error, action, gas_weight) ==
    LET r == AppendCall(action_receipts, gas_weights, receipt_index, error, action,
                        gas_weight)
        done == r.ret.kind = "Ok"
    IN /\ Running
       /\ done => appends < MaxActions /\ PendingSize < MaxPending
       /\ op' = name
       /\ args' = [f \in DOMAIN call_args \cup {"payload_error"} |->
                       IF f = "payload_error" THEN error ELSE call_args[f]]
       /\ ret' = r.ret
       /\ prev_receipts' = action_receipts
       /\ prev_weights' = gas_weights
       /\ prev_counter' = data_id_counter
       /\ prev_appended' = appended
       /\ action_receipts' = r.receipts
       /\ gas_weights' = r.weights
       /\ appended' = IF done
                      THEN [appended EXCEPT ![receipt_index + 1] = Append(@, action)]
                      ELSE appended
       /\ weighted' = IF done /\ gas_weight > 0
                      THEN weighted \cup {<<receipt_index, r.ret.index>>}
                      ELSE weighted
       /\ appends' = IF done THEN appends + 1 ELSE appends
       /\ UNCHANGED <<data_id_counter, created, returned>>

ReceiptIndexInputs == 0..Len(action_receipts)

FunctionCallAction(method_name, fn_args, prepaid_gas, attached_deposit) ==
    [kind |-> "FunctionCall", method_name |-> method_name, args |-> fn_args,
     gas |-> prepaid_gas, deposit |-> attached_deposit]

append_action_create_account ==
    \E receipt_index \in ReceiptIndexInputs :
        AppendStep("append_action_create_account",
                   [receipt_index |-> receipt_index], receipt_index, "",
                   [kind |-> "CreateAccount"], 0)

append_action_deploy_contract ==
    \E receipt_index \in ReceiptIndexInputs, code \in {<<0, 97>>} :
        AppendStep("append_action_deploy_contract",
                   [receipt_index |-> receipt_index], receipt_index, "",
                   [kind |-> "DeployContract", code |-> code], 0)

\* Weighted calls: every prepaid gas and weight under a well-formed method
\* name, and one call with an ill-formed name.
FunctionCallWeightInputs ==
    {[method_name |-> <<109>>, prepaid_gas |-> g, gas_weight |-> w] :
        g \in PrepaidGasInputs, w \in GasWeightInputs}
    \cup {[method_name |-> <<255>>, prepaid_gas |-> 1, gas_weight |-> 1]}

append_action_function_call_weight ==
    \E receipt_index \in ReceiptIndexInputs, call \in FunctionCallWeightInputs,
       fn_args \in {<<1>>}, attached_deposit \in {3} :
        LET name == StringFromUtf8(call.method_name)
        IN AppendStep("append_action_function_call_weight",
                      [receipt_index |-> receipt_index, prepaid_gas |-> call.prepaid_gas,
                       gas_weight |-> call.gas_weight],
                      receipt_index,
                      IF name.ok THEN "" ELSE "InvalidMethodName",
                      FunctionCallAction(name.value, fn_args, call.prepaid_gas,
                                         attached_deposit),
                      call.gas_weight)

append_action_function_call ==
    \E receipt_index \in ReceiptIndexInputs, method_name \in MethodNameInputs,
       fn_args \in {<<1>>}, attached_deposit \in {3},
       prepaid_gas \in PrepaidGasInputs :
        LET name == StringFromUtf8(method_name)
        IN AppendStep("append_action_function_call",
                      [receipt_index |-> receipt_index, prepaid_gas |-> prepaid_gas],
                      receipt_index,
                      IF name.ok THEN "" ELSE "InvalidMethodName",
                      FunctionCallAction(name.value, fn_args, prepaid_gas, attached_deposit),
                      0)

append_action_transfer ==
    \E receipt_index \in ReceiptIndexInputs, deposit \in {500} :
        AppendStep("append_action_transfer",
                   [receipt_index |-> receipt_index], receipt_index, "",
                   [kind |-> "Transfer", deposit |-> deposit], 0)

append_action_stake ==
    \E receipt_index \in ReceiptIndexInputs, stake \in {40},
       public_key \in PublicKeyInputs :
        LET key == PublicKeyTryFromSlice(public_key)
        IN AppendStep("append_action_stake",
                      [receipt_index |-> receipt_index], receipt_index,
                      IF key.ok THEN "" ELSE "InvalidPublicKey",
                      [kind |-> "Stake", stake |-> stake, public_key |-> key.value], 0)

append_action_add_key_with_full_access ==
    \E receipt_index \in ReceiptIndexInputs, public_key \in PublicKeyInputs,
       nonce \in {5} :
        LET key == PublicKeyTryFromSlice(public_key)
        IN AppendStep("append_action_add_key_with_full_access",
                      [receipt_index |-> receipt_index], receipt_index,
                      IF key.ok THEN "" ELSE "InvalidPublicKey",
                      [kind |-> "AddKey", public_key |-> key.value,
                       access_key |-> [nonce |-> nonce,
                                       permission |-> [kind |-> "FullAccess"]]],
                      0)

\* The public key is converted before the method names, so a call with both
\* ill-formed fails with InvalidPublicKey.
append_action_add_key_with_function_call ==
    \E receipt_index \in ReceiptIndexInputs, public_key \in PublicKeyInputs,
       nonce \in {5}, allowance \in {[some |-> TRUE, amount |-> 9]},
       receiver_id \in {"c.test"}, method_names \in MethodNamesInputs :
        LET key == PublicKeyTryFromSlice(public_key)
            names == CollectMethodNames(method_names, 1, <<>>)
        IN AppendStep("append_action_add_key_with_function_call",
                      [receipt_index |-> receipt_index], receipt_index,
                      IF ~key.ok THEN "InvalidPublicKey"
                      ELSE IF ~names.ok THEN "InvalidMethodName" ELSE "",
                      [kind |-> "AddKey", public_key |-> key.value,
                       access_key |->
                           [nonce |-> nonce,
                            permission |-> [kind |-> "FunctionCall",
                                            allowance |-> allowance,
                                            receiver_id |-> receiver_id,
                                            method_names |-> names.value]]],
                      0)

append_action_delete_key ==
    \E receipt_index \in ReceiptIndexInputs, public_key \in PublicKeyInputs :
        LET key == PublicKeyTryFromSlice(public_key)
        IN AppendStep("append_action_delete_key",
                      [receipt_index |-> receipt_index], receipt_index,
                      IF key.ok THEN "" ELSE "InvalidPublicKey",
                      [kind |-> "DeleteKey", public_key |-> key.value], 0)

append_action_delete_account ==
    \E receipt_index \in ReceiptIndexInputs, beneficiary_id \in {"b.test"} :
        AppendStep("append_action_delete_account",
                   [receipt_index |-> receipt_index], receipt_index, "",
                   [kind |-> "DeleteAccount", beneficiary_id |-> beneficiary_id], 0)

(* ------------------------ distribute_unused_gas ------------------------ *)

\* Integer arithmetic of width U: the value kept on wrap-around, and whether
\* the exact result is out of range.
Wrapped(x, U) == ((x % U) + U) % U
Overflows(x, U) == x < 0 \/ x >= U

\* self.gas_weights.iter().map(|(_, GasWeight(weight))| *weight as u128).sum()
\* Faulty variant: the weights are summed in 64 bits.
RECURSIVE WeightSumU64(_, _)
WeightSumU64(weights, k) ==
    IF k > Len(weights) THEN 0
    ELSE (weights[k].weight + WeightSumU64(weights, k + 1)) % U64

RECURSIVE WeightSum(_, _)
WeightSum(weights, k) ==
    IF k > Len(weights) THEN 0 ELSE weights[k].weight + WeightSum(weights, k + 1)

\* Faulty variant: the gas goes to the first action of the receipt named.
DistributeGasToFirstAction(receipts, index, assigned_gas, overflow_checks) ==
    IF /\ InRange(receipts, index.receipt_index)
       /\ receipts[index.receipt_index + 1].actions # <<>>
       /\ receipts[index.receipt_index + 1].actions[1].kind = "FunctionCall"
    THEN [receipts |->
              [receipts EXCEPT ![index.receipt_index + 1].actions[1].gas =
                   Wrapped(@ + assigned_gas, U64)],
          status |-> "ok"]
    ELSE [receipts |-> receipts,
          status |-> "Invalid index for assigning unused gas weight"]

\* The distribute_gas closure: `*gas += assigned_gas` on the function-call
\* action the index names, a panic when it names nothing or another kind of
\* action. With overflow checks the addition panics on overflow, without it wraps.
DistributeGas(receipts, index, assigned_gas, overflow_checks) ==
    IF /\ InRange(receipts, index.receipt_index)
       /\ InRange(receipts[index.receipt_index + 1].actions, index.action_index)
       /\ receipts[index.receipt_index + 1].actions[index.action_index + 1].kind
              = "FunctionCall"
    THEN LET sum == receipts[index.receipt_index + 1]
                        .actions[index.action_index + 1].gas + assigned_gas
         IN IF Overflows(sum, U64) /\ overflow_checks
            THEN [receipts |-> receipts, status |-> "attempt to add with overflow"]
            ELSE [receipts |->
                      [receipts EXCEPT ![index.receipt_index + 1]
                                          .actions[index.action_index + 1].gas =
                           Wrapped(sum, U64)],
                  status |-> "ok"]
    ELSE [receipts |-> receipts,
          status |-> "Invalid index for assigning unused gas weight"]

\* The for loop over gas_weights from its k-th entry on.
RECURSIVE DistributeLoop(_, _, _, _, _, _)
DistributeLoop(receipts, weights, k, distributed, gas_per_weight, overflow_checks) ==
    IF k > Len(weights)
    THEN [receipts |-> receipts, distributed |-> distributed, status |-> "ok"]
    ELSE LET product == gas_per_weight * weights[k].weight
             assigned_gas == Wrapped(product, U64)
             d == DistributeGas(receipts, weights[k], assigned_gas, overflow_checks)
             total == distributed + assigned_gas
         IN IF Overflows(product, U64) /\ overflow_checks
            THEN [receipts |-> receipts, distributed |-> distributed,
                  status |-> "attempt to multiply with overflow"]
            ELSE IF d.status # "ok"
            THEN [receipts |-> d.receipts, distributed |-> distributed,
                  status |-> d.status]
            ELSE IF Overflows(total, U64) /\ overflow_checks
            THEN [receipts |-> d.receipts, distributed |-> distributed,
                  status |-> "attempt to add with overflow"]
            ELSE DistributeLoop(d.receipts, weights, k + 1, Wrapped(total, U64),
                                gas_per_weight, overflow_checks)

\* Faulty variant: the registry is kept after the pass.
ClearedNothing(weights) == weights

\* self.gas_weights.clear()
Cleared(weights) == <<>>

\* Faulty variant: with no recorded weight the gas goes to the first function call
\* of the first receipt.
DistributeUnusedGasToFirst(receipts, weights, gas, overflow_checks) ==
    IF weights = <<>> /\ receipts # <<>> /\ receipts[1].actions # <<>>
       /\ receipts[1].actions[1].kind = "FunctionCall"
    THEN [receipts |-> [receipts EXCEPT ![1].actions[1].gas = Wrapped(@ + gas, U64)],
          weights |-> weights, dist |-> "NoRatios", panic |-> ""]
    ELSE [receipts |-> receipts, weights |-> weights, dist |-> "NoRatios", panic |-> ""]

\* distribute_unused_gas(gas): the receipts and registry it leaves and the
\* GasDistribution it returns, or the panic it ends in.
DistributeUnusedGas(receipts, weights, gas, overflow_checks) ==
    LET exact_sum == WeightSum(weights, 1)
        gas_weight_sum == Wrapped(exact_sum, U128)
        gas_per_weight == Wrapped(gas \div gas_weight_sum, U64)
        loop == DistributeLoop(receipts, weights, 1, 0, gas_per_weight, overflow_checks)
        remaining == gas - loop.distributed
        last == DistributeGas(loop.receipts, weights[Len(weights)],
                              Wrapped(remaining, U64), overflow_checks)
    IN IF Overflows(exact_sum, U128) /\ overflow_checks
       THEN [receipts |-> receipts, weights |-> weights, dist |-> "",
             panic |-> "attempt to add with overflow"]
       ELSE IF gas_weight_sum = 0
       THEN [receipts |-> receipts, weights |-> weights, dist |-> "NoRatios",
             panic |-> ""]
       ELSE IF loop.status # "ok"
       THEN [receipts |-> loop.receipts, weights |-> weights, dist |-> "",
             panic |-> loop.status]
       ELSE IF Overflows(remaining, U64) /\ overflow_checks
       THEN [receipts |-> loop.receipts, weights |-> weights, dist |-> "",
             panic |-> "attempt to subtract with overflow"]
       ELSE IF last.status # "ok"
       THEN [receipts |-> last.receipts, weights |-> weights, dist |-> "",
             panic |-> last.status]
       ELSE [receipts |-> last.receipts, weights |-> Cleared(weights), dist |-> "All",
             panic |-> ""]

\* Whether the build checks integer overflow is a property of the build
\* profile: both kinds of build are considered.
DistributeStep(gas_inputs) ==
    /\ Running
    /\ \E gas \in gas_inputs, overflow_checks \in BOOLEAN :
         LET r == DistributeUnusedGas(action_receipts, gas_weights, gas, overflow_checks)
         IN /\ op' = "distribute_unused_gas"
            /\ args' = [gas |-> gas]
            /\ prev_receipts' = action_receipts
            /\ prev_weights' = gas_weights
            /\ prev_counter' = data_id_counter
            /\ prev_appended' = appended
            /\ action_receipts' = r.receipts
            /\ gas_weights' = r.weights
            /\ ret' = IF r.panic # "" THEN Panic(r.panic)
                      ELSE Outcome("Ok", "", -1, r.dist, <<>>, NoReceiver)
            /\ UNCHANGED <<data_id_counter, appended, created, weighted, returned, appends>>

distribute_unused_gas == DistributeStep(UnusedGasInputs)

\* distribute_unused_gas with any amount of gas a u64 can hold.
distribute_any_gas == DistributeStep(0..U64Max)

(* ------------------------------- Spec ---------------------------------- *)

Next ==
    \/ create_receipt
    \/ get_receipt_receiver
    \/ append_action_create_account
    \/ append_action_deploy_contract
    \/ append_action_function_call_weight
    \/ append_action_function_call
    \/ append_action_transfer
    \/ append_action_stake
    \/ append_action_add_key_with_full_access
    \/ append_action_add_key_with_function_call
    \/ append_action_delete_key
    \/ append_action_delete_account
    \/ distribute_unused_gas
    \/ take_receipts

Spec == Init /\ [][Next]_vars

\* The manager used to build a dependency graph: receipts are created,
\* looked up, given weighted function calls and drained.
NextLinks ==
    \/ create_receipt_linked
    \/ get_receipt_receiver
    \/ append_action_function_call_weight
    \/ take_receipts

SpecLinks == Init /\ [][NextLinks]_vars

\* The arithmetic of distribute_unused_gas on its own: the manager holds one
\* receipt whose function calls, each attached with gas 0, are recorded in
\* the registry with any weights a u64 can hold, and any amount of gas is
\* distributed.
WeightLists == SeqsUpTo(1..U64Max, MaxWeights) \ {<<>>}

WeightedCalls(weight_list) ==
    [k \in 1..Len(weight_list) |-> FunctionCallAction([utf8 |-> <<109>>], <<1>>, 0, 3)]

InitArith ==
    \E weight_list \in WeightLists :
        /\ action_receipts =
               <<[receiver_id |-> "b.test", output_data_receivers |-> <<>>,
                  input_data_ids |-> <<>>, actions |-> WeightedCalls(weight_list)]>>
        /\ gas_weights =
               [k \in 1..Len(weight_list) |->
                   [receipt_index |-> 0, action_index |-> k - 1,
                    weight |-> weight_list[k]]]
        /\ data_id_counter = 0
        /\ op = "new"
        /\ args = [none |-> TRUE]
        /\ ret = Ok
        /\ prev_receipts = <<>>
        /\ prev_weights = <<>>
        /\ prev_counter = 0
        /\ appended = <<WeightedCalls(weight_list)>>
        /\ prev_appended = <<>>
        /\ created = <<[receiver_id |-> "b.test", input_data_ids |-> <<>>]>>
        /\ weighted = {<<0, k - 1>> : k \in 1..Len(weight_list)}
        /\ returned = <<0>>
        /\ appends = Len(weight_list)

NextArith == distribute_any_gas

SpecArith == InitArith /\ [][NextArith]_vars

(* ------------------------------ claims --------------------------------- *)

AppendOps ==
    {"append_action_create_account", "append_action_deploy_contract",
     "append_action_function_call_weight", "append_action_function_call",
     "append_action_transfer", "append_action_stake",
     "append_action_add_key_with_full_access",
     "append_action_add_key_with_function_call", "append_action_delete_key",
     "append_action_delete_account"}

\* Some index of the dependency list is out of range of the store.
HasInvalidIndex(receipt_indices, receipts) ==
    \E k \in DOMAIN receipt_indices : ~InRange(receipts, receipt_indices[k])

\* C1: create_receipt called with a dependency list holding an out-of-range
\* index fails with InvalidReceiptIndex carrying such an index, and leaves
\* the store (its length and every entry) as it was before the call.
C1_CreateReceiptAllOrNothing ==
    (op = "create_receipt" /\ HasInvalidIndex(args.receipt_indices, prev_receipts))
    => /\ ret.kind = "Err"
       /\ ret.err = "InvalidReceiptIndex"
       /\ \E k \in DOMAIN args.receipt_indices : args.receipt_indices[k] = ret.index
       /\ ~InRange(prev_receipts, ret.index)
       /\ action_receipts = prev_receipts

\* C2: take_receipts returns one record per receipt created since the store
\* was last drained, in creation order; record i carries receipt i's receiver,
\* input_data_ids, output_data_receivers and actions as accumulated at the
\* call, the predecessor, signer, signer key and gas price of the call, and
\* the default receipt id.
C2_TakeReceiptsRecords ==
    op = "take_receipts"
    => /\ ret.kind = "Ok"
       /\ Len(ret.receipts) = Len(prev_appended)
       /\ Len(ret.receipts) = Len(prev_receipts)
       /\ \A i \in 1..Len(ret.receipts) :
            /\ ret.receipts[i].receiver_id = prev_receipts[i].receiver_id
            /\ ret.receipts[i].input_data_ids = prev_receipts[i].input_data_ids
            /\ ret.receipts[i].output_data_receivers
                   = prev_receipts[i].output_data_receivers
            /\ ret.receipts[i].actions = prev_receipts[i].actions
            /\ Len(ret.receipts[i].actions) = Len(prev_appended[i])
            /\ ret.receipts[i].predecessor_id = args.predecessor_id
            /\ ret.receipts[i].signer_id = args.signer_id
            /\ ret.receipts[i].signer_public_key = args.signer_public_key
            /\ ret.receipts[i].gas_price = args.gas_price
            /\ ret.receipts[i].receipt_id = DefaultCryptoHash

\* Two receipts are drained, the first with an action and an output receiver,
\* the second waiting on the first.
C2_Witness ==
    /\ op = "take_receipts"
    /\ Len(ret.receipts) = 2
    /\ ret.receipts[1].receiver_id # ret.receipts[2].receiver_id
    /\ ret.receipts[1].actions # <<>>
    /\ ret.receipts[1].output_data_receivers # <<>>
    /\ ret.receipts[2].input_data_ids # <<>>

(* Gas fields before and after a call. *)

IsFunctionCall(receipts, i, j) ==
    /\ InRange(receipts, i)
    /\ InRange(receipts[i + 1].actions, j)
    /\ receipts[i + 1].actions[j + 1].kind = "FunctionCall"

\* The gas field of action j of receipt i, 0 when it is no function call.
GasOf(receipts, i, j) ==
    IF IsFunctionCall(receipts, i, j) THEN receipts[i + 1].actions[j + 1].gas ELSE 0

RECURSIVE SumGasFrom(_, _, _)
SumGasFrom(receipts, i, j) ==
    IF i >= Len(receipts) THEN 0
    ELSE IF j >= Len(receipts[i + 1].actions) THEN SumGasFrom(receipts, i + 1, 0)
    ELSE GasOf(receipts, i, j) + SumGasFrom(receipts, i, j + 1)

\* The sum of the gas fields of all function-call actions of the store.
TotalGas(receipts) == SumGasFrom(receipts, 0, 0)

\* floor(gas / weight sum) for the registry the last call found.
PerWeightUnit == args.gas \div WeightSum(prev_weights, 1)

RECURSIVE SharesFrom(_, _, _)
SharesFrom(weights, per, k) ==
    IF k > Len(weights) THEN 0 ELSE per * weights[k].weight + SharesFrom(weights, per, k + 1)

\* What the k-th recorded entry is due: its share, and for the entry recorded
\* last the remainder as well.
DueTo(k) ==
    PerWeightUnit * prev_weights[k].weight
    + (IF k = Len(prev_weights)
       THEN args.gas - SharesFrom(prev_weights, PerWeightUnit, 1)
       ELSE 0)

\* C3: distribute_unused_gas called with a non-empty registry returns All,
\* and the gas fields of the function-call actions grow by exactly gas in
\* total.
C3_DistributesExactlyGas ==
    (op = "distribute_unused_gas" /\ prev_weights # <<>>)
    => /\ ret.kind = "Ok"
       /\ ret.dist = "All"
       /\ Len(action_receipts) = Len(prev_receipts)
       /\ TotalGas(action_receipts) - TotalGas(prev_receipts) = args.gas

\* C4: in distribute_unused_gas every recorded entry but the last gains
\* floor(gas / S) * weight on its action's gas field, and the entry recorded
\* last gains that plus the remainder.
C4_SharePerEntry ==
    (op = "distribute_unused_gas" /\ prev_weights # <<>>)
    => /\ ret.kind = "Ok"
       /\ \A k \in 1..Len(prev_weights) :
            LET i == prev_weights[k].receipt_index
                j == prev_weights[k].action_index
            IN /\ IsFunctionCall(prev_receipts, i, j)
               /\ IsFunctionCall(action_receipts, i, j)
               /\ GasOf(action_receipts, i, j) - GasOf(prev_receipts, i, j) = DueTo(k)

\* C5: an append_action_* call that fails on its payload (InvalidMethodName
\* from the calls that take method names, InvalidPublicKey from those that
\* take a public key) leaves every receipt and the gas-weight registry as
\* they were.
C5_FailedAppendChangesNothing ==
    (op \in AppendOps /\ ret.kind = "Err")
    => /\ action_receipts = prev_receipts
       /\ gas_weights = prev_weights
       /\ ret.err \in {"InvalidMethodName", "InvalidPublicKey"}
       /\ ret.err = "InvalidMethodName"
              => op \in {"append_action_function_call_weight",
                         "append_action_function_call",
                         "append_action_add_key_with_function_call"}
       /\ ret.err = "InvalidPublicKey"
              => op \in {"append_action_stake",
                         "append_action_add_key_with_full_access",
                         "append_action_add_key_with_function_call",
                         "append_action_delete_key"}

\* A weighted call with an ill-formed method name fails on a receipt that
\* already holds a weighted action.
C5_Witness ==
    /\ op = "append_action_function_call_weight"
    /\ ret.kind = "Err"
    /\ ret.err = "InvalidMethodName"
    /\ InRange(prev_receipts, args.receipt_index)
    /\ prev_receipts[args.receipt_index + 1].actions # <<>>
    /\ prev_weights # <<>>

\* The registrations create_receipt adds to receipt i: one per occurrence of
\* i in the dependency list, from the k-th occurrence on, in list order.
RECURSIVE Registrations(_, _, _, _, _)
Registrations(i, receipt_indices, data_ids, receiver_id, k) ==
    IF k > Len(receipt_indices) THEN <<>>
    ELSE (IF receipt_indices[k] = i
          THEN <<[data_id |-> data_ids[k], receiver_id |-> receiver_id]>>
          ELSE <<>>)
         \o Registrations(i, receipt_indices, data_ids, receiver_id, k + 1)

\* The data ids a store holds, as output registrations or input dependencies.
DataIdsOf(receipts) ==
    UNION {{receipts[i].output_data_receivers[k].data_id :
                k \in DOMAIN receipts[i].output_data_receivers}
           \cup {receipts[i].input_data_ids[k] : k \in DOMAIN receipts[i].input_data_ids} :
           i \in DOMAIN receipts}

\* C6: a successful create_receipt(deps, receiver) mints one fresh data id per
\* element of deps, appends (id, receiver) at the end of the output receivers
\* of the dependency that element names, and gives the new receipt exactly
\* these ids as input_data_ids, in the order of deps; the new receipt has no
\* output receivers and no actions.
C6_CreateReceiptLinks ==
    (op = "create_receipt" /\ ret.kind = "Ok")
    => LET n == Len(args.receipt_indices)
           new == action_receipts[Len(action_receipts)]
       IN /\ Len(action_receipts) = Len(prev_receipts) + 1
          /\ new.receiver_id = args.receiver_id
          /\ new.output_data_receivers = <<>>
          /\ new.actions = <<>>
          /\ Len(new.input_data_ids) = n
          /\ \A k \in 1..n : new.input_data_ids[k] \notin DataIdsOf(prev_receipts)
          /\ \A k, m \in 1..n : k # m => new.input_data_ids[k] # new.input_data_ids[m]
          /\ \A i \in 1..Len(prev_receipts) :
               action_receipts[i].output_data_receivers =
                   prev_receipts[i].output_data_receivers
                   \o Registrations(i - 1, args.receipt_indices, new.input_data_ids,
                                    args.receiver_id, 1)

\* A third receipt is created that depends on the second and then on the
\* first, which already has a registration and belongs to another receiver.
C6_Witness ==
    /\ op = "create_receipt"
    /\ ret.kind = "Ok"
    /\ args.receipt_indices = <<1, 0>>
    /\ prev_receipts[1].output_data_receivers # <<>>
    /\ prev_receipts[1].receiver_id # args.receiver_id

\* C7 as stated: over the lifetime of a manager the successful create_receipt
\* calls return 0, 1, 2, ... and no index is returned twice, whatever other
\* operations are interleaved.
C7_IndicesNeverReused ==
    \A k \in DOMAIN returned : returned[k] = k - 1

\* C7 amended: a successful create_receipt returns the length the store had
\* before the call and grows the store by one entry, so the calls since the
\* store was last drained returned 0, 1, 2, ... in order; take_receipts
\* empties the store and the indices start again from 0.
C7_IndicesDenseUntilDrained ==
    /\ (op = "create_receipt" /\ ret.kind = "Ok")
           => /\ ret.index = Len(prev_receipts)
              /\ Len(action_receipts) = Len(prev_receipts) + 1
    /\ Len(action_receipts) <= Len(returned)
    /\ \A k \in 1..Len(action_receipts) :
           returned[Len(returned) - Len(action_receipts) + k] = k - 1

\* A receipt is created in a store that was drained of the first receipt.
C7_Witness ==
    /\ op = "create_receipt"
    /\ ret.kind = "Ok"
    /\ ret.index = 0
    /\ returned = <<0, 0>>

\* FunctionCall actions agree on all fields but gas; other actions are equal.
SameButGas(a, b) ==
    IF a.kind = "FunctionCall" /\ b.kind = "FunctionCall"
    THEN [a EXCEPT !.gas = 0] = [b EXCEPT !.gas = 0]
    ELSE a = b

\* C8 as stated: every action of a record take_receipts returns has the kind
\* and field values it was appended with, and the actions of record i are
\* the actions appended to receipt i, in order.
C8_RoundTrip ==
    op = "take_receipts"
    => /\ Len(ret.receipts) = Len(prev_appended)
       /\ \A i \in 1..Len(ret.receipts) : ret.receipts[i].actions = prev_appended[i]

\* C8 amended: the actions of record i are the actions appended to receipt i,
\* in order, none added, dropped or duplicated, each with the kind and field
\* values it was appended with, except that the gas field of a function-call
\* action may have been changed by distribute_unused_gas.
C8_RoundTripButGas ==
    op = "take_receipts"
    => /\ Len(ret.receipts) = Len(prev_appended)
       /\ \A i \in 1..Len(ret.receipts) :
            /\ Len(ret.receipts[i].actions) = Len(prev_appended[i])
            /\ \A j \in 1..Len(prev_appended[i]) :
                 SameButGas(ret.receipts[i].actions[j], prev_appended[i][j])

\* A receipt is drained that holds two actions of different kinds, one of
\* them a function call whose gas was raised by a distribution.
C8_Witness ==
    /\ op = "take_receipts"
    /\ \E i \in 1..Len(ret.receipts) :
         /\ Len(ret.receipts[i].actions) = 2
         /\ ret.receipts[i].actions[1].kind # ret.receipts[i].actions[2].kind
         /\ \E j \in 1..2 : ret.receipts[i].actions[j] # prev_appended[i][j]

\* C9: take_receipts leaves the store empty, so a lookup on a drained store
\* is absent for every index and a take_receipts on a drained store returns
\* an empty sequence.
C9_TakeReceiptsDrains ==
    /\ op = "take_receipts"
           => /\ action_receipts = <<>>
              /\ (prev_receipts = <<>> => ret.receipts = <<>>)
    /\ (op = "get_receipt_receiver" /\ prev_receipts = <<>>) => ~ret.receiver.some

\* take_receipts is called again on a store it drained of two receipts.
C9_Witness ==
    /\ op = "take_receipts"
    /\ prev_receipts = <<>>
    /\ returned = <<0, 1>>
    /\ ret.receipts = <<>>

\* C10: distribute_unused_gas called with an empty registry returns NoRatios
\* and changes neither a gas field nor anything else of the store.
C10_NoRatiosChangesNothing ==
    (op = "distribute_unused_gas" /\ prev_weights = <<>>)
    => /\ ret.kind = "Ok"
       /\ ret.dist = "NoRatios"
       /\ action_receipts = prev_receipts
       /\ gas_weights = <<>>

\* Gas is offered to a store whose receipt holds a function call appended
\* with weight 0 and one appended without a weight.
C10_Witness ==
    /\ op = "distribute_unused_gas"
    /\ prev_weights = <<>>
    /\ args.gas > 0
    /\ ret.dist = "NoRatios"
    /\ Len(prev_receipts) = 1
    /\ Len(prev_receipts[1].actions) = 2
    /\ \A j \in 1..2 : prev_receipts[1].actions[j].kind = "FunctionCall"
    /\ prev_receipts[1].actions = prev_appended[1]

\* The last call was a weighted function-call append that succeeded with a
\* weight above 0.
WeightedAppendDone ==
    /\ op = "append_action_function_call_weight"
    /\ ret.kind = "Ok"
    /\ args.gas_weight > 0

\* C11: a successful weighted function-call append with weight > 0 adds one
\* entry (receipt index, position of the appended action, weight) at the end
\* of the registry; every other append (weight 0, unweighted, another kind of
\* action, a failed call) adds none; so every recorded weight is positive and
\* the weight sum is 0 exactly when the registry is empty.
C11_RegistryRecordsWeightedAppends ==
    /\ WeightedAppendDone
           => gas_weights =
                  Append(prev_weights,
                         [receipt_index |-> args.receipt_index,
                          action_index |->
                              Len(prev_receipts[args.receipt_index + 1].actions),
                          weight |-> args.gas_weight])
    /\ (op \in AppendOps /\ ~WeightedAppendDone) => gas_weights = prev_weights
    /\ \A k \in DOMAIN gas_weights : gas_weights[k].weight > 0
    /\ (WeightSum(gas_weights, 1) = 0) <=> (gas_weights = <<>>)

\* A second weighted call is recorded, for the second action of its receipt.
C11_Witness ==
    /\ WeightedAppendDone
    /\ Len(gas_weights) = 2
    /\ gas_weights[2].action_index = 1
    /\ gas_weights[2].weight = 2
    /\ gas_weights[1].weight = 1

\* C12: a distribute_unused_gas call that returns All leaves the registry
\* empty; an empty registry stays empty until a weighted function call is
\* appended; and a distribute_unused_gas call that finds it empty returns
\* NoRatios and adds gas to no action. So a recorded request gets gas from
\* one pass only.
C12_RegistrySingleUse ==
    /\ (op = "distribute_unused_gas" /\ ret.kind = "Ok" /\ ret.dist = "All")
           => gas_weights = <<>>
    /\ (prev_weights = <<>> /\ op # "append_action_function_call_weight")
           => gas_weights = <<>>
    /\ (op = "distribute_unused_gas" /\ prev_weights = <<>>)
           => /\ ret.dist = "NoRatios"
              /\ \A i \in 0..(Len(prev_receipts) - 1) :
                   \A j \in 0..(Len(prev_receipts[i + 1].actions) - 1) :
                       GasOf(action_receipts, i, j) = GasOf(prev_receipts, i, j)

\* Gas is offered again after a pass that raised the gas of a weighted call.
C12_Witness ==
    /\ op = "distribute_unused_gas"
    /\ args.gas > 0
    /\ prev_weights = <<>>
    /\ ret.dist = "NoRatios"
    /\ Len(prev_receipts) = 1
    /\ Len(prev_receipts[1].actions) = 1
    /\ prev_receipts[1].actions[1].kind = "FunctionCall"
    /\ prev_receipts[1].actions[1].gas > prev_appended[1][1].gas

\* The last call was an append_action_* call on a receipt index that was out
\* of range of the store.
AppendOutOfRange ==
    op \in AppendOps /\ ~InRange(prev_receipts, args.receipt_index)

Named(receipt_indices) == {receipt_indices[k] : k \in DOMAIN receipt_indices}

\* C14: a successful create_receipt(deps, receiver) leaves every existing
\* receipt that deps does not name as it was, changes nothing but
\* output_data_receivers of those it names, and leaves the registry as it
\* was; with empty deps the new receipt has no input_data_ids and no existing
\* receipt changes.
C14_CreateReceiptFrame ==
    (op = "create_receipt" /\ ret.kind = "Ok")
    => /\ Len(action_receipts) = Len(prev_receipts) + 1
       /\ \A i \in 1..Len(prev_receipts) :
            /\ action_receipts[i].receiver_id = prev_receipts[i].receiver_id
            /\ action_receipts[i].input_data_ids = prev_receipts[i].input_data_ids
            /\ action_receipts[i].actions = prev_receipts[i].actions
            /\ (i - 1) \notin Named(args.receipt_indices)
                   => action_receipts[i] = prev_receipts[i]
       /\ gas_weights = prev_weights
       /\ args.receipt_indices = <<>>
              => /\ action_receipts[Len(action_receipts)].input_data_ids = <<>>
                 /\ SubSeq(action_receipts, 1, Len(prev_receipts)) = prev_receipts

\* A third receipt is created that depends on the second; the first, which
\* it does not name, has a registration of its own.
C14_Witness ==
    /\ op = "create_receipt"
    /\ ret.kind = "Ok"
    /\ args.receipt_indices = <<1>>
    /\ Len(prev_receipts) = 2
    /\ prev_receipts[1].output_data_receivers # <<>>
    /\ action_receipts[2] # prev_receipts[2]

\* C15: get_receipt_receiver(index) returns the receiver given to the
\* create_receipt call that made the pending receipt of that index when the
\* index is below the length of the store, returns nothing for an index at or
\* above it, and changes neither store nor registry.
C15_GetReceiptReceiverPure ==
    /\ Len(created) = Len(action_receipts)
    /\ op = "get_receipt_receiver"
           => /\ action_receipts = prev_receipts
              /\ gas_weights = prev_weights
              /\ data_id_counter = prev_counter
              /\ ret.kind = "Ok"
              /\ ret.receiver =
                     IF args.receipt_index < Len(prev_receipts)
                     THEN [some |-> TRUE, id |-> created[args.receipt_index + 1].receiver_id]
                     ELSE NoReceiver

\* The second of two receipts of different receivers is looked up.
C15_Witness ==
    /\ op = "get_receipt_receiver"
    /\ Len(prev_receipts) = 2
    /\ args.receipt_index = 1
    /\ ret.receiver.some
    /\ created[1].receiver_id # created[2].receiver_id
    /\ prev_receipts[1].output_data_receivers # <<>>

\* C16 as stated: in every reachable state every entry of the registry names an
\* existing receipt and a position in it that holds a function-call action,
\* and distribute_unused_gas never ends in the "Invalid index" panic.
C16_RegistryResolves ==
    /\ \A k \in DOMAIN gas_weights :
           IsFunctionCall(action_receipts, gas_weights[k].receipt_index,
                          gas_weights[k].action_index)
    /\ ret # Panic("Invalid index for assigning unused gas weight")

\* No receipt has been drained so far: every successful create_receipt call
\* of the manager has its receipt in the store.
NothingDrained == Len(returned) = Len(action_receipts)

\* C16 amended: as long as take_receipts has drained no receipt, every entry
\* of the registry names an existing receipt and a position in it that holds
\* a function-call action, and distribute_unused_gas does not end in the
\* "Invalid index" panic; take_receipts empties the store and leaves the
\* registry as it is.
C16_RegistryResolvesUntilDrained ==
    /\ NothingDrained
           => /\ \A k \in DOMAIN gas_weights :
                     IsFunctionCall(action_receipts, gas_weights[k].receipt_index,
                                    gas_weights[k].action_index)
              /\ ret # Panic("Invalid index for assigning unused gas weight")
    /\ op = "take_receipts" => gas_weights = prev_weights

\* Gas is distributed over two recorded calls of a store that was never
\* drained.
C16_Witness ==
    /\ op = "distribute_unused_gas"
    /\ NothingDrained
    /\ Len(prev_weights) = 2
    /\ args.gas > 0
    /\ ret.dist = "All"

\* Sequence s starts with sequence p.
StartsWith(s, p) == Len(s) >= Len(p) /\ SubSeq(s, 1, Len(p)) = p

\* C17: every operation but take_receipts, whether it succeeds or fails,
\* keeps each existing receipt at its index with the receiver and the
\* input_data_ids it was created with, and keeps every element its
\* output_data_receivers and actions had, at the same position: the two lists
\* only gain elements at the end. (distribute_unused_gas removes and moves no
\* action; it changes gas fields.)
C17_AppendOnlyUntilDrained ==
    /\ Len(created) = Len(action_receipts)
    /\ \A i \in DOMAIN action_receipts :
           /\ action_receipts[i].receiver_id = created[i].receiver_id
           /\ action_receipts[i].input_data_ids = created[i].input_data_ids
    /\ op \notin {"new", "take_receipts"}
           => /\ Len(action_receipts) >= Len(prev_receipts)
              /\ \A i \in 1..Len(prev_receipts) :
                   /\ action_receipts[i].receiver_id = prev_receipts[i].receiver_id
                   /\ action_receipts[i].input_data_ids = prev_receipts[i].input_data_ids
                   /\ StartsWith(action_receipts[i].output_data_receivers,
                                 prev_receipts[i].output_data_receivers)
                   /\ Len(action_receipts[i].actions) >= Len(prev_receipts[i].actions)
                   /\ \A j \in 1..Len(prev_receipts[i].actions) :
                        IF op = "distribute_unused_gas"
                        THEN SameButGas(action_receipts[i].actions[j],
                                        prev_receipts[i].actions[j])
                        ELSE action_receipts[i].actions[j] = prev_receipts[i].actions[j]

\* An action of another kind is appended to a receipt that holds an action
\* and an output receiver.
C17_Witness ==
    /\ op \in AppendOps
    /\ ret.kind = "Ok"
    /\ prev_receipts[args.receipt_index + 1].output_data_receivers # <<>>
    /\ Len(prev_receipts[args.receipt_index + 1].actions) = 1
    /\ action_receipts[args.receipt_index + 1].actions[2].kind
           # action_receipts[args.receipt_index + 1].actions[1].kind

\* The exact sum of the weights of a registry from its k-th entry on.
RECURSIVE SumOfWeights(_, _)
SumOfWeights(weights, k) ==
    IF k > Len(weights) THEN 0 ELSE weights[k].weight + SumOfWeights(weights, k + 1)

\* The exact sum of per * weight over the first n entries of a registry.
RECURSIVE SharesUpTo(_, _, _)
SharesUpTo(weights, per, n) ==
    IF n = 0 THEN 0 ELSE SharesUpTo(weights, per, n - 1) + per * weights[n].weight

\* C18: with the weights summed in 128 bits, floor(gas / weight sum) * weight
\* fits in 64 bits for every entry, the running total of these shares never
\* exceeds gas, and the remainder gas - distributed is never negative; so for
\* every gas value and every registry of 64-bit weights the distribution
\* neither panics nor wraps in its own arithmetic: it returns All and every
\* entry gains its exact share, the last one the exact remainder as well.
C18_ArithmeticFits ==
    (op = "distribute_unused_gas" /\ prev_weights # <<>>)
    => LET n == Len(prev_weights)
           per == args.gas \div SumOfWeights(prev_weights, 1)
       IN /\ SumOfWeights(prev_weights, 1) < U128
          /\ \A k \in 1..n :
               /\ per * prev_weights[k].weight <= U64Max
               /\ SharesUpTo(prev_weights, per, k) <= args.gas
          /\ args.gas - SharesUpTo(prev_weights, per, n) >= 0
          /\ ret.kind = "Ok"
          /\ ret.dist = "All"
          /\ \A k \in 1..n :
               GasOf(action_receipts, prev_weights[k].receipt_index,
                     prev_weights[k].action_index)
               = GasOf(prev_receipts, prev_weights[k].receipt_index,
                       prev_weights[k].action_index)
                 + per * prev_weights[k].weight
                 + (IF k = n THEN args.gas - SharesUpTo(prev_weights, per, n) ELSE 0)

\* The largest amount of gas is distributed over three weights whose sum does
\* not fit in 64 bits, the largest weight among them, with a remainder left.
C18_Witness ==
    /\ op = "distribute_unused_gas"
    /\ args.gas = U64Max
    /\ Len(prev_weights) = 3
    /\ SumOfWeights(prev_weights, 1) > U64Max
    /\ \E k \in 1..3 : prev_weights[k].weight = U64Max
    /\ ret.dist = "All"
    /\ GasOf(action_receipts, 0, 2) = U64Max

\* The places (receipt, position in output_data_receivers) where the store
\* registers data id d.
RegisteredAt(receipts, d) ==
    UNION {{<<i, k>> : k \in {n \in DOMAIN receipts[i].output_data_receivers :
                                 receipts[i].output_data_receivers[n].data_id = d}} :
           i \in DOMAIN receipts}

\* The places (receipt, position in input_data_ids) where the store waits
\* for data id d.
AwaitedAt(receipts, d) ==
    UNION {{<<j, m>> : m \in {n \in DOMAIN receipts[j].input_data_ids :
                                 receipts[j].input_data_ids[n] = d}} :
           j \in DOMAIN receipts}

\* C19: in every reachable state, each data id a receipt j waits for is
\* registered in exactly one entry of the output_data_receivers of exactly one
\* receipt i, that entry names the receiver of j, and i comes before j; no
\* data id is waited for twice.
C19_LinksConsistent ==
    \A j \in DOMAIN action_receipts :
        \A m \in DOMAIN action_receipts[j].input_data_ids :
            LET d == action_receipts[j].input_data_ids[m]
            IN /\ Cardinality(RegisteredAt(action_receipts, d)) = 1
               /\ \A place \in RegisteredAt(action_receipts, d) :
                    /\ place[1] < j
                    /\ action_receipts[place[1]].output_data_receivers[place[2]].receiver_id
                           = action_receipts[j].receiver_id
               /\ AwaitedAt(action_receipts, d) = {<<j, m>>}

\* Three receipts are linked: the second waits for the first, the third for
\* the second and the first, and the receivers differ.
C19_Witness ==
    /\ op = "create_receipt"
    /\ ret.kind = "Ok"
    /\ Len(action_receipts) = 3
    /\ Len(action_receipts[2].input_data_ids) = 1
    /\ args.receipt_indices = <<1, 0>>
    /\ action_receipts[1].receiver_id # action_receipts[3].receiver_id
    /\ action_receipts[2].receiver_id # action_receipts[3].receiver_id

\* The (receipt index, action index) pairs a registry names.
Recorded(weights) ==
    {<<weights[k].receipt_index, weights[k].action_index>> : k \in DOMAIN weights}

\* The last call left the store as it was but for gas fields of function-call
\* actions: same length, same receivers, input_data_ids and
\* output_data_receivers, same number and kinds of actions, same non-gas
\* fields.
OnlyGasChanged ==
    /\ Len(action_receipts) = Len(prev_receipts)
    /\ \A i \in 1..Len(prev_receipts) :
         /\ action_receipts[i].receiver_id = prev_receipts[i].receiver_id
         /\ action_receipts[i].input_data_ids = prev_receipts[i].input_data_ids
         /\ action_receipts[i].output_data_receivers
                = prev_receipts[i].output_data_receivers
         /\ Len(action_receipts[i].actions) = Len(prev_receipts[i].actions)
         /\ \A j \in 1..Len(prev_receipts[i].actions) :
              SameButGas(action_receipts[i].actions[j], prev_receipts[i].actions[j])

\* The last call left every action at a position outside the set as it was.
UnchangedOutside(positions) ==
    \A i \in 1..Len(prev_receipts) :
        \A j \in 1..Len(prev_receipts[i].actions) :
            <<i - 1, j - 1>> \notin positions
                => action_receipts[i].actions[j] = prev_receipts[i].actions[j]

\* C20 as stated: distribute_unused_gas changes nothing of the store but gas
\* fields of function-call actions, and the gas field of a function call that
\* was appended without a weight above 0 is the same after the call.
C20_DistributeFrame ==
    op = "distribute_unused_gas"
    => /\ OnlyGasChanged
       /\ UnchangedOutside(Recorded(prev_weights))
       /\ UnchangedOutside(weighted)

\* C20 amended: distribute_unused_gas changes nothing of the store but the
\* gas fields of the function-call actions at the positions the registry
\* names; as long as take_receipts has drained no receipt these are calls
\* appended with a weight above 0, so the gas field of a call appended without
\* one is the same after the call.
C20_DistributeFrameUntilDrained ==
    op = "distribute_unused_gas"
    => /\ OnlyGasChanged
       /\ UnchangedOutside(Recorded(prev_weights))
       /\ NothingDrained => UnchangedOutside(weighted)

\* Gas is given to a weighted call of a receipt, never drained, that also
\* holds a function call appended without a weight.
C20_Witness ==
    /\ op = "distribute_unused_gas"
    /\ NothingDrained
    /\ ret.dist = "All"
    /\ Len(prev_receipts) = 1
    /\ Len(prev_receipts[1].actions) = 2
    /\ prev_receipts[1].actions[1].kind = "FunctionCall"
    /\ weighted = {<<0, 1>>}
    /\ action_receipts[1].actions[2].gas > prev_receipts[1].actions[2].gas

\* C21: in distribute_unused_gas the addition of the share to the gas field
\* never overflows: whatever gas each weighted function call was appended
\* with and whatever gas is passed, the call does not panic and every recorded
\* call's gas field afterwards is its prepaid gas plus its share (for the call
\* recorded last the remainder as well), exactly, a value within 64 bits.
C21_GasAdditionExact ==
    (op = "distribute_unused_gas" /\ NothingDrained /\ prev_weights # <<>>)
    => LET n == Len(prev_weights)
           per == args.gas \div SumOfWeights(prev_weights, 1)
       IN /\ ret.kind # "Panic"
          /\ \A k \in 1..n :
               LET exact == GasOf(prev_receipts, prev_weights[k].receipt_index,
                                  prev_weights[k].action_index)
                            + per * prev_weights[k].weight
                            + (IF k = n
                               THEN args.gas - SharesUpTo(prev_weights, per, n)
                               ELSE 0)
               IN /\ exact <= U64Max
                  /\ GasOf(action_receipts, prev_weights[k].receipt_index,
                           prev_weights[k].action_index) = exact

====
